---- MODULE Spec2Model ----
(***************************************************************************)
(* Model of docs/designs/fuzzy_patch.py: find_flexible_match, the matcher  *)
(* that tolerates blank lines, and apply_fuzzy_patch, which applies the    *)
(* hunks of a unified diff to the lines of a target file and writes the    *)
(* file once every hunk has been applied.                                  *)
(*                                                                         *)
(* A file line is a string.  A diff line is a record: k is its kind        *)
(* ("file" a header line such as "--- a/f", "hdr" a line starting with     *)
(* "@@", "body" a line with a first character op and the rest txt, "nl"    *)
(* the empty line).  Indices into line lists are 0-based as in the source; *)
(* element i of a Python list t is t[i + 1] here.                          *)
(*                                                                         *)
(* Not modelled: I/O errors other than a missing target file (an           *)
(* unreadable diff, a failing read or write).                              *)
(***************************************************************************)
EXTENDS Integers, Sequences, FiniteSets, TLC

VARIABLES
    disk,        \* the persisted target file: [exists, lines]
    diff,        \* the lines of the diff file (diff_lines_raw)
    orig,        \* the lines the diff was written against (not read by the code)
    pc,          \* "start", "loop" (the for loop over diff_parts), "done"
    k,           \* number of diff_parts the loop has consumed
    patched,     \* patched_lines_raw
    offset,      \* current_file_offset
    matchStart,  \* match_start_idx_0idx of the last replacement hunk
    matchEnd,    \* match_end_idx_0idx of the last replacement hunk
    prevLines,   \* patched_lines_raw before the last iteration of the loop
    prevOffset,  \* current_file_offset before the last iteration of the loop
    steps,       \* what the loop did with each part so far, in order
    result,      \* the return value: "none" while running, "ok" (True), "fail" (False)
    err,         \* which error was printed: "", "target", "header", "match"
    writes,      \* how many times the target file was opened for writing
    disk0,       \* the target file as it was before the run
    mt, mh, ms,  \* a direct call find_flexible_match(mt, mh, ms) ...
    mres,        \* ... and what it returned
    mrun         \* the locals of a call of find_flexible_match that runs step by step

vars == <<disk, diff, orig, pc, k, patched, offset, matchStart, matchEnd,
          prevLines, prevOffset, steps, result, err, writes, disk0,
          mt, mh, ms, mres, mrun>>

---------------------------------------------------------------------------
(* Bounds of the model. *)

MaxTarget == 2        \* lines of a target file
MaxDiffLen == 4       \* lines of a diff that starts with a hunk
MaxPrefixedLen == 2   \* lines after the file header of a diff that has one
MaxFile == 4          \* lines of target_lines in a direct call of the matcher
MaxHunkLen == 3       \* entries of hunk_lines in a direct call of the matcher
MaxOrig == 3          \* lines of a file a diff is generated against
MaxContext == 1       \* context lines before and after the change of a hunk
MaxExtraBlanks == 1   \* blank lines added to a file at one place
MaxLongFile == 83     \* lines of a file longer than the search window

SeqUpTo(S, n) == UNION {[1..m -> S] : m \in 0..n}

Max(a, b) == IF a >= b THEN a ELSE b
Min(a, b) == IF a <= b THEN a ELSE b

---------------------------------------------------------------------------
(* Strings. *)

\* str.rstrip() on the lines of the model: trailing whitespace removed.
RStrip(s) ==
    CASE s = " "  -> ""
      [] s = "a " -> "a"
      [] s = "b " -> "b"
      [] OTHER    -> s

\* A string that str.strip() empties.
IsSpace(s) == RStrip(s) = ""

---------------------------------------------------------------------------
(* find_flexible_match *)

NotFound == [found |-> FALSE, start |-> -1, end |-> -1]

\* The locals i, target_ptr, pattern_ptr and match_start_idx before the call.
NoLocals == [i |-> 0, tp |-> 0, pp |-> 0, start |-> -1]

\* CorePattern as it would be if the blank entries stayed in the pattern.
CorePattern_WithBlanks(h) == h

\* core_pattern: the non-empty entries of hunk_lines, in order.
CorePattern(h) == SelectSeq(h, LAMBDA x : x # "")

\* The block of blank lines only: the first i >= the start with
\* [rstrip(x) for x in t[i : i + len(h)]] == h.
RECURSIVE ExactMatchFrom(_, _, _)
ExactMatchFrom(t, h, i) ==
    IF i > Len(t) - Len(h) THEN NotFound
    ELSE IF \A j \in 1..Len(h) : RStrip(t[i + j]) = h[j]
         THEN [found |-> TRUE, start |-> i, end |-> i + Len(h)]
         ELSE ExactMatchFrom(t, h, i + 1)

\* The first while loop: advance target_ptr to the first line equal to
\* core_pattern[0], or to len(target_lines).
RECURSIVE ScanFirst(_, _, _)
ScanFirst(t, c, tp) ==
    IF tp < Len(t) /\ RStrip(t[tp + 1]) # c[1]
    THEN ScanFirst(t, c, tp + 1)
    ELSE tp

\* Walk as it would be if a line that differs from the next entry were
\* skipped whether it is blank or not.
RECURSIVE Walk_SkippingAny(_, _, _, _)
Walk_SkippingAny(t, c, pp, tp) ==
    IF pp < Len(c) /\ tp < Len(t)
    THEN IF RStrip(t[tp + 1]) = c[pp + 1]
         THEN Walk_SkippingAny(t, c, pp + 1, tp + 1)
         ELSE Walk_SkippingAny(t, c, pp, tp + 1)
    ELSE <<pp, tp>>

\* The second while loop: <<pattern_ptr, target_ptr>> when it ends.
RECURSIVE Walk(_, _, _, _)
Walk(t, c, pp, tp) ==
    IF pp < Len(c) /\ tp < Len(t)
    THEN IF RStrip(t[tp + 1]) = c[pp + 1]
         THEN Walk(t, c, pp + 1, tp + 1)
         ELSE IF RStrip(t[tp + 1]) # ""
              THEN <<pp, tp>>
              ELSE Walk(t, c, pp, tp + 1)
    ELSE <<pp, tp>>

\* FlexMatchFrom as it would be if a mismatch on a non-blank line ended the
\* whole search.
FlexMatchFrom_NoRetry(t, c, i) ==
    IF i >= Len(t) THEN NotFound
    ELSE LET first == ScanFirst(t, c, i) IN
         IF first >= Len(t) THEN NotFound
         ELSE LET w == Walk(t, c, 1, first + 1) IN
              IF w[1] = Len(c)
              THEN [found |-> TRUE, start |-> first, end |-> w[2]]
              ELSE NotFound

\* FlexMatchFrom as it would be if a later match were preferred to an
\* earlier one.
RECURSIVE FlexMatchFrom_Latest(_, _, _)
FlexMatchFrom_Latest(t, c, i) ==
    IF i >= Len(t) THEN NotFound
    ELSE LET first == ScanFirst(t, c, i) IN
         IF first >= Len(t) THEN NotFound
         ELSE LET w     == Walk(t, c, 1, first + 1)
                  later == FlexMatchFrom_Latest(t, c, first + 1)
              IN
              IF later.found THEN later
              ELSE IF w[1] = Len(c)
                   THEN [found |-> TRUE, start |-> first, end |-> w[2]]
                   ELSE NotFound

\* The for loop over i in range(search_start_idx, len(target_lines)).
RECURSIVE FlexMatchFrom(_, _, _)
FlexMatchFrom(t, c, i) ==
    IF i >= Len(t) THEN NotFound
    ELSE LET first == ScanFirst(t, c, i) IN
         IF first >= Len(t) THEN NotFound
         ELSE LET w == Walk(t, c, 1, first + 1) IN
              IF w[1] = Len(c)
              THEN [found |-> TRUE, start |-> first, end |-> w[2]]
              ELSE FlexMatchFrom(t, c, i + 1)

FindFlexibleMatch(t, h, start) ==
    IF CorePattern(h) = <<>>
    THEN ExactMatchFrom(t, h, start)
    ELSE FlexMatchFrom(t, CorePattern(h), start)

---------------------------------------------------------------------------
(* The diff text. *)

HdrLine(ok, old) == [k |-> "hdr", op |-> IF ok THEN "ok" ELSE "bad", txt |-> "", old |-> old]
BodyLine(op, txt) == [k |-> "body", op |-> op, txt |-> txt, old |-> 0]
FileLine(op, txt) == [k |-> "file", op |-> op, txt |-> txt, old |-> 0]
EmptyLine == [k |-> "nl", op |-> "", txt |-> "", old |-> 0]

\* line.startswith("---") and "/dev/null" in line
MarksNewFile(l) == l.k = "file" /\ l.op = "---" /\ l.txt = "/dev/null"

\* line.startswith("@@")
StartsHunk(l) == l.k = "hdr"

\* A line that is empty or whitespace only.
IsSpaceLine(l) == l.k = "nl" \/ (l.k = "body" /\ l.op = " " /\ IsSpace(l.txt))

\* text.strip() == "" for the text of these lines.
IsSpaceText(ls) == \A i \in 1..Len(ls) : IsSpaceLine(ls[i])

\* The first character of a non-empty line, and the rest of the line.
OpOf(l) ==
    CASE l.k = "body" -> l.op
      [] l.k = "file" -> (IF l.op = "---" THEN "-" ELSE IF l.op = "+++" THEN "+" ELSE "d")
      [] OTHER        -> "@"

RawOf(l) ==
    CASE l.k = "body" -> l.txt
      [] l.k = "file" /\ l.op = "---" -> "-- path"
      [] l.k = "file" /\ l.op = "+++" -> "++ path"
      [] OTHER        -> "rest"

\* re.split(r"(?=^@@)", text, flags=re.MULTILINE): the lines before the first
\* "@@" line (maybe none), then one part per "@@" line with the lines after it.
RECURSIVE SplitParts(_, _, _)
SplitParts(ls, i, acc) ==
    IF i > Len(ls) THEN acc
    ELSE IF StartsHunk(ls[i])
         THEN SplitParts(ls, i + 1, Append(acc, <<ls[i]>>))
         ELSE SplitParts(ls, i + 1,
                 [acc EXCEPT ![Len(acc)] = Append(acc[Len(acc)], ls[i])])

\* diff_parts after the pop(0) of leading file-header material.
DiffParts(ls) ==
    LET parts == SplitParts(ls, 1, << <<>> >>) IN
    IF parts[1] # <<>> /\ ~IsSpaceText(parts[1]) THEN Tail(parts) ELSE parts

\* NothingToApply as it would be if the early return were missing.
NothingToApply_Never(parts) == FALSE

\* not diff_parts or (len(diff_parts) == 1 and not diff_parts[0].strip())
NothingToApply(parts) ==
    parts = <<>> \/ (Len(parts) = 1 /\ IsSpaceText(parts[1]))

\* hunk_text.strip().splitlines(): trailing whitespace-only lines go, and the
\* last line left loses its trailing whitespace.
RECURSIVE DropSpaceTail(_)
DropSpaceTail(ls) ==
    IF ls # <<>> /\ IsSpaceLine(ls[Len(ls)])
    THEN DropSpaceTail(SubSeq(ls, 1, Len(ls) - 1))
    ELSE ls

StripHunkText(part) ==
    LET ls == DropSpaceTail(part) IN
    IF ls = <<>> THEN ls
    ELSE [ls EXCEPT ![Len(ls)] =
            IF @.k = "body" THEN [@ EXCEPT !.txt = RStrip(@)] ELSE @]

\* current_hunk_original_block_stripped: context and removed lines, stripped.
RECURSIVE ExpectedBlock(_)
ExpectedBlock(body) ==
    IF body = <<>> THEN <<>>
    ELSE LET l == Head(body) IN
         IF l.k # "nl" /\ OpOf(l) \in {" ", "-"}
         THEN <<RStrip(RawOf(l))>> \o ExpectedBlock(Tail(body))
         ELSE ExpectedBlock(Tail(body))

\* current_hunk_new_block_raw: context and added lines, as they are.
RECURSIVE NewBlock(_)
NewBlock(body) ==
    IF body = <<>> THEN <<>>
    ELSE LET l == Head(body) IN
         IF l.k # "nl" /\ OpOf(l) \in {" ", "+"}
         THEN <<RawOf(l)>> \o NewBlock(Tail(body))
         ELSE NewBlock(Tail(body))

---------------------------------------------------------------------------
(* One iteration of the loop over diff_parts. *)

search_window_radius == 40

\* Splice as it would be if the new lines were put in without taking the
\* old ones out.
Splice_KeepingOld(lines, from, to, new) ==
    SubSeq(lines, 1, from) \o new \o SubSeq(lines, from + 1, Len(lines))

\* patched_lines_raw[:from] + new + patched_lines_raw[to:]
Splice(lines, from, to, new) ==
    SubSeq(lines, 1, from) \o new \o SubSeq(lines, to + 1, Len(lines))

\* InsertionPoint as it would be if a hunk at line 0 ignored the offset.
InsertionPoint_AtZero(old, off, n) ==
    LET raw == IF old = 0 THEN 0 ELSE (old - 1) + off IN
    Max(0, Min(raw, n))

\* InsertionPoint as it would be if only the lower end were clamped and an
\* insertion past the end went to the top.
InsertionPoint_PastEndToTop(old, off, n) ==
    LET raw == IF old = 0 THEN off ELSE (old - 1) + off IN
    IF raw > n THEN 0 ELSE Max(0, raw)

\* insertion_point_0idx of a pure insertion.
InsertionPoint(old, off, n) ==
    LET raw == IF old = 0 THEN off ELSE (old - 1) + off IN
    Max(0, Min(raw, n))

\* window_search_start
WindowSearchStart(old, off) == Max(0, ((old - 1) + off) - search_window_radius)

\* LocateHunk as it would be without the search of the whole file.
LocateHunk_WindowOnly(lines, expected, old, off) ==
    FindFlexibleMatch(lines, expected, WindowSearchStart(old, off))

\* The search near the hint, then the search of the whole file.
LocateHunk(lines, expected, old, off) ==
    LET near == FindFlexibleMatch(lines, expected, WindowSearchStart(old, off)) IN
    IF near.found THEN near ELSE FindFlexibleMatch(lines, expected, 0)

Outcome(kind, lines, off, s, e) ==
    [kind |-> kind, lines |-> lines, off |-> off, start |-> s, end |-> e]

\* HunkOutcome as it would be if the offset moved by the length of the
\* expected block instead of the length of the matched region.
HunkOutcome_ExpectedLength(lines, off, part) ==
    LET text == StripHunkText(part) IN
    IF text = <<>> \/ ~StartsHunk(text[1])
    THEN Outcome("skip", lines, off, -1, -1)
    ELSE IF text[1].op # "ok"
    THEN Outcome("header", lines, off, -1, -1)
    ELSE
      LET old      == text[1].old
          expected == ExpectedBlock(Tail(text))
          new      == NewBlock(Tail(text))
      IN
      IF expected = <<>>
      THEN IF new = <<>>
           THEN Outcome("empty", lines, off, -1, -1)
           ELSE LET p == InsertionPoint(old, off, Len(lines)) IN
                Outcome("insert", Splice(lines, p, p, new), off + Len(new), p, p)
      ELSE LET m == LocateHunk(lines, expected, old, off) IN
           IF m.found
           THEN Outcome("replace", Splice(lines, m.start, m.end, new),
                        off + Len(new) - Len(expected), m.start, m.end)
           ELSE Outcome("match", lines, off, -1, -1)

\* What the loop body does with one part, from the lines and the offset
\* before it: the kind of step, and the lines and the offset after it.
HunkOutcome(lines, off, part) ==
    LET text == StripHunkText(part) IN
    IF text = <<>> \/ ~StartsHunk(text[1])
    THEN Outcome("skip", lines, off, -1, -1)
    ELSE IF text[1].op # "ok"
    THEN Outcome("header", lines, off, -1, -1)
    ELSE
      LET old      == text[1].old
          expected == ExpectedBlock(Tail(text))
          new      == NewBlock(Tail(text))
      IN
      IF expected = <<>>
      THEN IF new = <<>>
           THEN Outcome("empty", lines, off, -1, -1)
           ELSE LET p == InsertionPoint(old, off, Len(lines)) IN
                Outcome("insert", Splice(lines, p, p, new), off + Len(new), p, p)
      ELSE LET m == LocateHunk(lines, expected, old, off) IN
           IF m.found
           THEN Outcome("replace", Splice(lines, m.start, m.end, new),
                        off + Len(new) - (m.end - m.start), m.start, m.end)
           ELSE Outcome("match", lines, off, -1, -1)

---------------------------------------------------------------------------
(* apply_fuzzy_patch *)

Finish(res, e) ==
    /\ pc' = "done"
    /\ result' = res
    /\ err' = e

\* From the call to the first iteration of the loop, or to an early return.
Start ==
    /\ pc = "start"
    /\ IF diff = <<>>
       THEN Finish("ok", "") /\ UNCHANGED patched
       ELSE IF ~MarksNewFile(diff[1]) /\ ~disk.exists
       THEN Finish("fail", "target") /\ UNCHANGED patched
       ELSE /\ patched' = IF MarksNewFile(diff[1]) THEN <<>> ELSE disk.lines
            /\ IF NothingToApply(DiffParts(diff))
               THEN Finish("ok", "")
               ELSE pc' = "loop" /\ UNCHANGED <<result, err>>
    /\ UNCHANGED <<disk, diff, orig, k, offset, matchStart, matchEnd, prevLines,
                   prevOffset, steps, writes, disk0, mt, mh, ms, mres, mrun>>

\* ProcessHunk as it would be if every applied hunk were written at once.
ProcessHunk_Persisting ==
    /\ pc = "loop"
    /\ k < Len(DiffParts(diff))
    /\ \E out \in {HunkOutcome(patched, offset, DiffParts(diff)[k + 1])} :
       /\ patched' = out.lines
       /\ offset' = out.off
       /\ prevLines' = patched
       /\ prevOffset' = offset
       /\ steps' = Append(steps, out.kind)
       /\ k' = k + 1
       /\ IF out.kind \in {"header", "match"}
          THEN Finish("fail", out.kind) /\ UNCHANGED <<matchStart, matchEnd, disk, writes>>
          ELSE /\ UNCHANGED <<pc, result, err>>
               /\ disk' = [exists |-> TRUE, lines |-> out.lines]
               /\ writes' = writes + 1
               /\ IF out.kind = "replace"
                  THEN matchStart' = out.start /\ matchEnd' = out.end
                  ELSE UNCHANGED <<matchStart, matchEnd>>
    /\ UNCHANGED <<diff, orig, disk0, mt, mh, ms, mres, mrun>>

\* ProcessHunk as it would be if a hunk that cannot be matched were passed
\* over and the loop went on with the next one.
ProcessHunk_PassingOver ==
    /\ pc = "loop"
    /\ k < Len(DiffParts(diff))
    /\ \E out \in {HunkOutcome(patched, offset, DiffParts(diff)[k + 1])} :
       /\ patched' = out.lines
       /\ offset' = out.off
       /\ prevLines' = patched
       /\ prevOffset' = offset
       /\ steps' = Append(steps, out.kind)
       /\ k' = k + 1
       /\ IF out.kind = "header"
          THEN Finish("fail", out.kind) /\ UNCHANGED <<matchStart, matchEnd>>
          ELSE /\ UNCHANGED <<pc, result, err>>
               /\ IF out.kind = "replace"
                  THEN matchStart' = out.start /\ matchEnd' = out.end
                  ELSE UNCHANGED <<matchStart, matchEnd>>
    /\ UNCHANGED <<disk, diff, orig, writes, disk0, mt, mh, ms, mres, mrun>>

\* One iteration of the loop.
ProcessHunk ==
    /\ pc = "loop"
    /\ k < Len(DiffParts(diff))
    /\ \E out \in {HunkOutcome(patched, offset, DiffParts(diff)[k + 1])} :
       /\ patched' = out.lines
       /\ offset' = out.off
       /\ prevLines' = patched
       /\ prevOffset' = offset
       /\ steps' = Append(steps, out.kind)
       /\ k' = k + 1
       /\ IF out.kind \in {"header", "match"}
          THEN Finish("fail", out.kind) /\ UNCHANGED <<matchStart, matchEnd>>
          ELSE /\ UNCHANGED <<pc, result, err>>
               /\ IF out.kind = "replace"
                  THEN matchStart' = out.start /\ matchEnd' = out.end
                  ELSE UNCHANGED <<matchStart, matchEnd>>
    /\ UNCHANGED <<disk, diff, orig, writes, disk0, mt, mh, ms, mres, mrun>>

\* After the last part: the file is written and the call returns True.
WriteFile ==
    /\ pc = "loop"
    /\ k = Len(DiffParts(diff))
    /\ disk' = [exists |-> TRUE, lines |-> patched]
    /\ writes' = writes + 1
    /\ Finish("ok", "")
    /\ UNCHANGED <<diff, orig, k, patched, offset, matchStart, matchEnd, prevLines,
                   prevOffset, steps, disk0, mt, mh, ms, mres, mrun>>

Next == Start \/ ProcessHunk \/ WriteFile

-------------------------------------------------------------------------------------------------------------------------------------------------
(* The inputs of a run. *)

TargetLines == {"", "a", "b"}
OldStarts == {0, 1, 2, 42}

Missing == [exists |-> FALSE, lines |-> <<>>]
Targets == {[exists |-> TRUE, lines |-> t] : t \in SeqUpTo(TargetLines, MaxTarget)}

HdrLines == {HdrLine(TRUE, o) : o \in OldStarts} \cup {HdrLine(FALSE, 0)}
BodyLines ==
    {BodyLine(" ", "a"), BodyLine("-", "a"), BodyLine("+", "a"),
     BodyLine(" ", ""), BodyLine("-", ""), EmptyLine}

OldNull == FileLine("---", "/dev/null")
OldFile == FileLine("---", "a/f")
NewFile == FileLine("+++", "b/f")
GitLine == FileLine("diff", "--git a/f b/f")

\* What may stand before the first hunk.
Prefixes ==
    { <<>>, <<EmptyLine>>, <<BodyLine(" ", "")>>, <<EmptyLine, BodyLine(" ", " ")>>,
      <<OldNull>>, <<OldNull, NewFile>>, <<OldFile, NewFile>>,
      <<GitLine, OldNull, NewFile>>, <<GitLine, OldFile, NewFile>> }

\* The hunks of a diff: nothing, or a "@@" line and up to n - 1 lines after it.
Sections(n) ==
    {<<>>} \cup
    {<<h>> \o b : h \in HdrLines, b \in SeqUpTo(HdrLines \cup BodyLines, n - 1)}

Diffs ==
    Sections(MaxDiffLen) \cup
    {p \o s : p \in Prefixes, s \in Sections(MaxPrefixedLen)}

InitRunVars ==
    /\ pc = "start"
    /\ k = 0
    /\ patched = <<>>
    /\ offset = 0
    /\ matchStart = -1
    /\ matchEnd = -1
    /\ prevLines = <<>>
    /\ prevOffset = 0
    /\ steps = <<>>
    /\ result = "none"
    /\ err = ""
    /\ writes = 0
    /\ disk0 = disk
    /\ mt = <<>> /\ mh = <<>> /\ ms = 0 /\ mres = NotFound /\ mrun = NoLocals

Init ==
    /\ disk \in Targets \cup {Missing}
    /\ diff \in Diffs
    /\ orig = disk.lines
    /\ InitRunVars

Spec == Init /\ [][Next]_vars

---------------------------------------------------------------------------
(* A run on a copy of the file a diff was generated against. *)

AddedLines == {"b"}

\* One change of a file o: lines at + before + 1 .. at + before + rem are
\* replaced by add, shown with before and after lines of context.
EditsOf(o) ==
    {e \in [at : 0..Len(o), before : 0..MaxContext, rem : 0..1,
            after : 0..MaxContext, add : SeqUpTo(AddedLines, 1)] :
        /\ e.at + e.before + e.rem + e.after <= Len(o)
        /\ e.rem + Len(e.add) >= 1
        /\ SubSeq(o, e.at + e.before + 1, e.at + e.before + e.rem) # e.add}

EditLen(e) == e.before + e.rem + e.after

Marked(op, ls) == [i \in 1..Len(ls) |-> BodyLine(op, ls[i])]

\* The hunk a diff tool writes for the change: "@@ -l,n +..." where l is the
\* first old line, or the line before the insertion when n = 0.
HunkOf(o, e) ==
    <<HdrLine(TRUE, IF EditLen(e) = 0 THEN e.at ELSE e.at + 1)>>
    \o Marked(" ", SubSeq(o, e.at + 1, e.at + e.before))
    \o Marked("-", SubSeq(o, e.at + e.before + 1, e.at + e.before + e.rem))
    \o Marked("+", e.add)
    \o Marked(" ", SubSeq(o, e.at + e.before + e.rem + 1, e.at + EditLen(e)))

GeneratedDiffs(o) ==
    {HunkOf(o, e) : e \in EditsOf(o)} \cup
    {HunkOf(o, e[1]) \o HunkOf(o, e[2]) :
        e \in {x \in EditsOf(o) \X EditsOf(o) :
                  x[1].at + EditLen(x[1]) <= x[2].at /\ x[1].at < x[2].at}}

\* o, and o with blank lines added between two lines that are not blank.
BlankCopies(o) ==
    {o} \cup
    {SubSeq(o, 1, i) \o [j \in 1..n |-> ""] \o SubSeq(o, i + 1, Len(o)) :
        i \in {x \in 1..(Len(o) - 1) : o[x] # "" /\ o[x + 1] # ""},
        n \in 1..MaxExtraBlanks}

InitDrift ==
    /\ orig \in SeqUpTo(TargetLines, MaxOrig)
    /\ diff \in GeneratedDiffs(orig)
    /\ disk \in {[exists |-> TRUE, lines |-> c] : c \in BlankCopies(orig)}
    /\ InitRunVars

DriftSpec == InitDrift /\ [][Next]_vars

---------------------------------------------------------------------------
(* A run on a file longer than the search window. *)

\* A file of n lines "b", but "a" at the 0-based indices in at.
LongFile(n, at) == [i \in 1..n |-> IF (i - 1) \in at THEN "a" ELSE "b"]

\* Files with "a" on no line, on one line or on two lines.
LongFiles ==
    {LongFile(MaxLongFile, {})} \cup
    {LongFile(MaxLongFile, {p, q}) : p \in 0..(MaxLongFile - 1), q \in 0..(MaxLongFile - 1)}

\* A hunk that removes a line "a", alone or after a hunk that adds a line "b"
\* at the top.
WindowDiffs ==
    {<<HdrLine(TRUE, o), BodyLine("-", "a")>> : o \in OldStarts} \cup
    {<<HdrLine(TRUE, 0), BodyLine("+", "b"), HdrLine(TRUE, o), BodyLine("-", "a")>> :
        o \in OldStarts}

InitWindow ==
    /\ disk \in {[exists |-> TRUE, lines |-> t] : t \in LongFiles}
    /\ diff \in WindowDiffs
    /\ orig = disk.lines
    /\ InitRunVars

WindowSpec == InitWindow /\ [][Next]_vars

---------------------------------------------------------------------------
(* A direct call of find_flexible_match. *)

MatchLines == {"", "a", "a ", "b"}
HunkEntries == {"", "a", "b"}

CallMatch ==
    /\ pc = "call"
    /\ mres' = FindFlexibleMatch(mt, mh, ms)
    /\ pc' = "returned"
    /\ UNCHANGED <<disk, diff, orig, k, patched, offset, matchStart, matchEnd,
                   prevLines, prevOffset, steps, result, err, writes, disk0,
                   mt, mh, ms, mrun>>

InitMatch ==
    /\ mt \in SeqUpTo(MatchLines, MaxFile)
    /\ mh \in SeqUpTo(HunkEntries, MaxHunkLen)
    /\ ms \in 0..MaxFile
    /\ mres = NotFound
    /\ mrun = NoLocals
    /\ pc = "call"
    /\ disk = Missing /\ disk0 = Missing /\ diff = <<>> /\ orig = <<>>
    /\ k = 0 /\ patched = <<>> /\ offset = 0 /\ matchStart = -1 /\ matchEnd = -1
    /\ prevLines = <<>> /\ prevOffset = 0 /\ steps = <<>>
    /\ result = "none" /\ err = "" /\ writes = 0

NextMatch == CallMatch

MatcherSpec == InitMatch /\ [][NextMatch]_vars

---------------------------------------------------------------------------
(* find_flexible_match and apply_fuzzy_patch run to their end: the matcher   *)
(* one loop iteration at a time, pc being the place in the function.         *)

ApplyVars == <<disk, diff, orig, k, patched, offset, matchStart, matchEnd,
               prevLines, prevOffset, steps, result, err, writes, disk0>>

Return(res) ==
    /\ pc' = "returned"
    /\ mres' = res
    /\ UNCHANGED mrun

\* Entry: core_pattern is computed and one of the two for loops is entered.
MatchBegin ==
    /\ pc = "m_begin"
    /\ pc' = IF CorePattern(mh) = <<>> THEN "m_exact" ELSE "m_for"
    /\ mrun' = [mrun EXCEPT !.i = ms]
    /\ UNCHANGED <<mt, mh, ms, mres>>
    /\ UNCHANGED ApplyVars

\* One iteration of the loop for a block of blank entries only.
MatchExact ==
    /\ pc = "m_exact"
    /\ IF mrun.i < Len(mt) - Len(mh) + 1
       THEN IF \A j \in 1..Len(mh) : RStrip(mt[mrun.i + j]) = mh[j]
            THEN Return([found |-> TRUE, start |-> mrun.i, end |-> mrun.i + Len(mh)])
            ELSE /\ mrun' = [mrun EXCEPT !.i = @ + 1]
                 /\ UNCHANGED <<pc, mres>>
       ELSE Return(NotFound)
    /\ UNCHANGED <<mt, mh, ms>>
    /\ UNCHANGED ApplyVars

\* The head of the for loop over i: the next i, or the end of the range.
MatchFor ==
    /\ pc = "m_for"
    /\ IF mrun.i < Len(mt)
       THEN /\ mrun' = [mrun EXCEPT !.pp = 0, !.tp = mrun.i]
            /\ pc' = "m_scan"
            /\ UNCHANGED mres
       ELSE Return(NotFound)
    /\ UNCHANGED <<mt, mh, ms>>
    /\ UNCHANGED ApplyVars

\* MatchScan as it would be if a line that differs from the first entry did
\* not advance target_ptr.
MatchScan_Stuck ==
    /\ pc = "m_scan"
    /\ IF mrun.tp < Len(mt) /\ RStrip(mt[mrun.tp + 1]) # CorePattern(mh)[1]
       THEN UNCHANGED <<mrun, pc, mres>>
       ELSE IF mrun.tp >= Len(mt)
            THEN Return(NotFound)
            ELSE /\ mrun' = [mrun EXCEPT !.start = mrun.tp, !.pp = 1, !.tp = @ + 1]
                 /\ pc' = "m_walk"
                 /\ UNCHANGED mres
    /\ UNCHANGED <<mt, mh, ms>>
    /\ UNCHANGED ApplyVars

\* One iteration of the first while loop, or what follows it when it ends.
MatchScan ==
    /\ pc = "m_scan"
    /\ IF mrun.tp < Len(mt) /\ RStrip(mt[mrun.tp + 1]) # CorePattern(mh)[1]
       THEN /\ mrun' = [mrun EXCEPT !.tp = @ + 1]
            /\ UNCHANGED <<pc, mres>>
       ELSE IF mrun.tp >= Len(mt)
            THEN Return(NotFound)
            ELSE /\ mrun' = [mrun EXCEPT !.start = mrun.tp, !.pp = 1, !.tp = @ + 1]
                 /\ pc' = "m_walk"
                 /\ UNCHANGED mres
    /\ UNCHANGED <<mt, mh, ms>>
    /\ UNCHANGED ApplyVars

\* One iteration of the second while loop, or its end.
MatchWalk ==
    /\ pc = "m_walk"
    /\ IF mrun.pp < Len(CorePattern(mh)) /\ mrun.tp < Len(mt)
       THEN IF RStrip(mt[mrun.tp + 1]) = CorePattern(mh)[mrun.pp + 1]
            THEN /\ mrun' = [mrun EXCEPT !.pp = @ + 1, !.tp = @ + 1]
                 /\ UNCHANGED pc
            ELSE IF RStrip(mt[mrun.tp + 1]) # ""
                 THEN /\ pc' = "m_check"
                      /\ UNCHANGED mrun
                 ELSE /\ mrun' = [mrun EXCEPT !.tp = @ + 1]
                      /\ UNCHANGED pc
       ELSE /\ pc' = "m_check"
            /\ UNCHANGED mrun
    /\ UNCHANGED <<mt, mh, ms, mres>>
    /\ UNCHANGED ApplyVars

\* After the second loop: return the match, or go on with the next i.
MatchCheck ==
    /\ pc = "m_check"
    /\ IF mrun.pp = Len(CorePattern(mh))
       THEN Return([found |-> TRUE, start |-> mrun.start, end |-> mrun.tp])
       ELSE /\ mrun' = [mrun EXCEPT !.i = @ + 1]
            /\ pc' = "m_for"
            /\ UNCHANGED mres
    /\ UNCHANGED <<mt, mh, ms>>
    /\ UNCHANGED ApplyVars

NextToEnd ==
    \/ Start \/ ProcessHunk \/ WriteFile
    \/ MatchBegin \/ MatchExact \/ MatchFor \/ MatchScan \/ MatchWalk \/ MatchCheck

\* A call of find_flexible_match about to run step by step.
InitMatchSteps ==
    /\ mt \in SeqUpTo(MatchLines, MaxFile)
    /\ mh \in SeqUpTo(HunkEntries, MaxHunkLen)
    /\ ms \in 0..MaxFile
    /\ mres = NotFound
    /\ mrun = NoLocals
    /\ pc = "m_begin"
    /\ disk = Missing /\ disk0 = Missing /\ diff = <<>> /\ orig = <<>>
    /\ k = 0 /\ patched = <<>> /\ offset = 0 /\ matchStart = -1 /\ matchEnd = -1
    /\ prevLines = <<>> /\ prevOffset = 0 /\ steps = <<>>
    /\ result = "none" /\ err = "" /\ writes = 0

\* The diffs of the runs to the end: up to MaxPrefixedLen lines of hunks, or
\* what may stand before the first hunk and no hunk.
DiffsToEnd == Sections(MaxPrefixedLen) \cup Prefixes

InitApplyToEnd ==
    /\ disk \in Targets \cup {Missing}
    /\ diff \in DiffsToEnd
    /\ orig = disk.lines
    /\ InitRunVars

InitToEnd == InitApplyToEnd \/ InitMatchSteps

\* Both functions are sequential code without waits: a call that has a next
\* step takes it.
LiveSpec == InitToEnd /\ [][NextToEnd]_vars /\ WF_vars(NextToEnd)

---------------------------------------------------------------------------
(* What the claims speak of. *)

BlankLine(x) == x \in {"", " "}

\* The lines of s that are not blank, in order.
NonBlankLines(s) == SelectSeq(s, LAMBDA x : ~BlankLine(x))

\* Lines a .. b - 1 of t (0-based) are all blank.
Gap(t, a, b) == \A j \in a..(b - 1) : BlankLine(t[j + 1])

\* The entries of c occur in t in order, the first at index i, with nothing
\* but blank lines between one and the next.
OccursAt(t, c, i) ==
    /\ c # <<>>
    /\ i \in 0..(Len(t) - 1)
    /\ \E p \in [1..Len(c) -> i..(Len(t) - 1)] :
          /\ p[1] = i
          /\ \A j \in 1..Len(c) : RStrip(t[p[j] + 1]) = c[j]
          /\ \A j \in 1..(Len(c) - 1) : p[j] < p[j + 1] /\ Gap(t, p[j] + 1, p[j + 1])

OccursIn(t, c) == \E i \in 0..(Len(t) - 1) : OccursAt(t, c, i)

\* The part the loop handled last, as the loop read it.
Stepped == k >= 1 /\ Len(steps) = k
LastText == StripHunkText(DiffParts(diff)[k])
LastIsHunk == LastText # <<>> /\ StartsHunk(LastText[1]) /\ LastText[1].op = "ok"
LastOld == LastText[1].old
LastExpected == ExpectedBlock(Tail(LastText))
LastNew == NewBlock(Tail(LastText))
LastOnlyAdds ==
    /\ Len(LastText) >= 2
    /\ \A i \in 2..Len(LastText) : LastText[i].k = "body" /\ LastText[i].op = "+"

LastIsReplacement == Stepped /\ LastIsHunk /\ LastExpected # <<>>

NoHunks(d) == \A i \in 1..Len(d) : ~StartsHunk(d[i])

\* The hunks of a diff d as a diff tool means them: for each the old lines
\* (context and removed), the new lines (context and added) and the 0-based
\* index in the old file where the old lines stand.
HunkParts(d) == Tail(SplitParts(d, 1, << <<>> >>))
FileHeader(d) == SplitParts(d, 1, << <<>> >>)[1]
TextsOf(ls) == [i \in 1..Len(ls) |-> ls[i].txt]
OldOf(h) == TextsOf(SelectSeq(Tail(h), LAMBDA l : l.op \in {" ", "-"}))
NewOf(h) == TextsOf(SelectSeq(Tail(h), LAMBDA l : l.op \in {" ", "+"}))
PosOf(h) == IF OldOf(h) = <<>> THEN h[1].old ELSE h[1].old - 1

\* d is a diff of the file o: every hunk names lines that stand in o where
\* the hunk says, and the hunks follow each other down the file.
WellFormedOn(o, d) ==
    LET hs == HunkParts(d) IN
    /\ hs # <<>>
    /\ \A i \in 1..Len(FileHeader(d)) :
          FileHeader(d)[i].k = "file" /\ ~MarksNewFile(FileHeader(d)[i])
    /\ \A i \in 1..Len(hs) :
          /\ hs[i][1].op = "ok"
          /\ Len(hs[i]) >= 2
          /\ \A j \in 2..Len(hs[i]) : hs[i][j].k = "body"
          /\ OldOf(hs[i]) # NewOf(hs[i])
          /\ PosOf(hs[i]) >= 0
          /\ PosOf(hs[i]) + Len(OldOf(hs[i])) <= Len(o)
          /\ SubSeq(o, PosOf(hs[i]) + 1, PosOf(hs[i]) + Len(OldOf(hs[i]))) = OldOf(hs[i])
    /\ \A i \in 1..(Len(hs) - 1) :
          /\ PosOf(hs[i]) + Len(OldOf(hs[i])) <= PosOf(hs[i + 1])
          /\ PosOf(hs[i]) < PosOf(hs[i + 1])

\* o after the first n hunks of hs, each put where it stands in o.
RECURSIVE PostImage(_, _, _)
PostImage(o, hs, n) ==
    IF n = 0 THEN o
    ELSE LET done == PostImage(o, hs, n - 1)
             at   == PosOf(hs[n]) + (Len(done) - Len(o))
         IN  SubSeq(done, 1, at) \o NewOf(hs[n])
                \o SubSeq(done, at + Len(OldOf(hs[n])) + 1, Len(done))

\* The lines a run of the loop over the parts of d leaves, from lines ls.
RECURSIVE RunFrom(_, _, _, _)
RunFrom(ls, off, parts, i) ==
    IF i > Len(parts) THEN [ok |-> TRUE, lines |-> ls]
    ELSE LET out == HunkOutcome(ls, off, parts[i]) IN
         IF out.kind \in {"header", "match"}
         THEN [ok |-> FALSE, lines |-> ls]
         ELSE RunFrom(out.lines, out.off, parts, i + 1)

RunOn(ls, d) == RunFrom(ls, 0, DiffParts(d), 1)

---------------------------------------------------------------------------
(* C1 *)

\* C1: a run that fails, at whatever hunk, leaves the target file as it was;
\* the file is written only once every part of the diff has been handled
\* without an error.
C1_Atomic ==
    /\ result = "fail" => disk = disk0 /\ writes = 0
    /\ pc # "done" => disk = disk0 /\ writes = 0
    /\ writes > 0 =>
          /\ result = "ok"
          /\ writes = 1
          /\ Len(steps) = Len(DiffParts(diff))
          /\ \A i \in 1..Len(steps) : steps[i] \notin {"header", "match"}
          /\ disk = [exists |-> TRUE, lines |-> patched]

\* A run that failed on a hunk after an earlier hunk had changed the lines.
C1_Witness ==
    /\ result = "fail"
    /\ err \in {"header", "match"}
    /\ patched # disk0.lines
    /\ \E i \in 1..Len(steps) : steps[i] \in {"insert", "replace"}

---------------------------------------------------------------------------
(* C2 *)

\* C2: a run with a diff of the very file it is applied to succeeds, and the
\* file then holds the diff's post-image.
C2_ExactBaseline ==
    (pc = "done" /\ disk0.exists /\ WellFormedOn(disk0.lines, diff)) =>
        /\ result = "ok"
        /\ disk.lines = PostImage(disk0.lines, HunkParts(diff), Len(HunkParts(diff)))

---------------------------------------------------------------------------
(* C3 *)

\* C3: a run on a copy of the original with blank lines added between
\* non-blank lines succeeds, and leaves the same non-blank lines as a run of
\* the same diff on the original.
C3_BlankLineTolerance ==
    pc = "done" =>
        /\ result = "ok"
        /\ RunOn(orig, diff).ok
        /\ NonBlankLines(disk.lines) = NonBlankLines(RunOn(orig, diff).lines)

---------------------------------------------------------------------------
(* C4 *)

\* C4: in a diff of the original file, a replacement hunk that comes after
\* hunks that changed the number of lines is matched at index
\* oldStart - 1 + offset, and the run succeeds.
C4_MatchedAtShiftedLine ==
    (disk0.exists /\ WellFormedOn(disk0.lines, diff)) =>
        /\ (LastIsReplacement /\ prevOffset # 0) =>
              steps[k] = "replace" /\ matchStart = (LastOld - 1) + prevOffset
        /\ (pc = "done" /\ Len(HunkParts(diff)) > 1) => result = "ok"

---------------------------------------------------------------------------
(* C6 *)

LastInsertsAtLineZero == Stepped /\ LastIsHunk /\ LastOnlyAdds /\ LastOld = 0

\* C6 as stated: a hunk with oldStart = 0 and only added lines puts its lines
\* at index 0 of the current lines, whatever the offset.
C6_AtIndexZero ==
    LastInsertsAtLineZero => patched = LastNew \o prevLines

\* C6 as amended: such a hunk puts its lines at index
\* max(0, min(offset, len(lines))): at the beginning when the offset is zero
\* or negative, after the first offset lines otherwise.
C6_AtOffset ==
    LastInsertsAtLineZero =>
        LET p == Max(0, Min(prevOffset, Len(prevLines))) IN
        /\ patched = SubSeq(prevLines, 1, p) \o LastNew
                        \o SubSeq(prevLines, p + 1, Len(prevLines))
        /\ offset = prevOffset + Len(LastNew)
        /\ (prevOffset <= 0 => patched = LastNew \o prevLines)

\* A hunk at line 0 handled after earlier hunks left a positive offset, with
\* lines before the place it went to.
C6_Witness ==
    /\ LastInsertsAtLineZero
    /\ prevOffset > 0
    /\ prevLines # <<>>
    /\ patched # LastNew \o prevLines

---------------------------------------------------------------------------
(* C7 *)

\* The diff is file-header lines, one of them "--- /dev/null", then one hunk
\* of added lines only.
IsCreationDiff(d, h) ==
    /\ h \in 2..(Len(d) - 1)
    /\ StartsHunk(d[h]) /\ d[h].op = "ok"
    /\ \A i \in 1..(h - 1) : d[i].k = "file"
    /\ \E i \in 1..(h - 1) : MarksNewFile(d[i])
    /\ \A i \in (h + 1)..Len(d) : d[i].k = "body" /\ d[i].op = "+"

\* C7: with "--- /dev/null" anywhere in the file header and a hunk of added
\* lines only, the run succeeds and the target holds exactly the added lines.
C7_CreatesFromHeader ==
    \A h \in 1..Len(diff) :
        (pc = "done" /\ IsCreationDiff(diff, h)) =>
            /\ result = "ok"
            /\ disk = [exists |-> TRUE,
                       lines |-> [i \in 1..(Len(diff) - h) |-> diff[h + i].txt]]

---------------------------------------------------------------------------
(* C8 *)

\* C8: a replacement hunk fails to match only if its non-blank expected lines
\* occur nowhere in the current lines; when they occur somewhere, inside the
\* window or not, the hunk is applied.
C8_FailsOnlyIfAbsent ==
    LastIsReplacement =>
        /\ steps[k] = "match" => ~OccursIn(prevLines, NonBlankLines(LastExpected))
        /\ OccursIn(prevLines, NonBlankLines(LastExpected)) =>
              /\ steps[k] = "replace"
              /\ result # "fail"
              /\ OccursAt(prevLines, NonBlankLines(LastExpected), matchStart)
              /\ patched = SubSeq(prevLines, 1, matchStart) \o LastNew
                              \o SubSeq(prevLines, matchEnd + 1, Len(prevLines))

\* A hunk applied at a place before the window of its first search.
C8_Witness ==
    /\ LastIsReplacement
    /\ steps[k] = "replace"
    /\ matchStart < (LastOld - 1) + prevOffset - search_window_radius

---------------------------------------------------------------------------
(* C9 *)

\* C9 as stated: a diff without hunks reports success and writes nothing.
C9_NoOpSucceeds ==
    (pc = "done" /\ NoHunks(diff)) =>
        result = "ok" /\ disk = disk0 /\ writes = 0

\* C9 as amended: a diff without hunks writes nothing; it reports success
\* when the target exists, when the diff has no line at all, or when its
\* first line is "--- /dev/null", and otherwise fails on the missing target.
C9_NoOpWritesNothing ==
    (pc = "done" /\ NoHunks(diff)) =>
        /\ disk = disk0 /\ writes = 0
        /\ result = "ok" <=> (disk0.exists \/ diff = <<>> \/ MarksNewFile(diff[1]))
        /\ result = "fail" => err = "target"

\* A diff of file-header lines only applied to a target with lines.
C9_Witness ==
    /\ pc = "done"
    /\ NoHunks(diff)
    /\ diff # <<>>
    /\ diff[1].k = "file" /\ ~MarksNewFile(diff[1])
    /\ disk0.exists /\ disk0.lines # <<>>
    /\ result = "ok"

---------------------------------------------------------------------------
(* C5 *)

Returned == pc = "returned"

\* The indices at or after the start of the search whose line is the first
\* non-blank expected entry.
Candidates == {i \in ms..(Len(mt) - 1) : RStrip(mt[i + 1]) = NonBlankLines(mh)[1]}
FirstCandidate == CHOOSE i \in Candidates : \A j \in Candidates : i <= j

\* From index f on, t holds the first m entries of c (nothing but blank lines
\* between them) and then, at index j, a non-blank line that is not entry
\* m + 1.
MismatchAfter(t, c, f) ==
    \E m \in 1..(Len(c) - 1), j \in (f + 1)..(Len(t) - 1) :
        /\ \E p \in [1..m -> f..(j - 1)] :
              /\ p[1] = f
              /\ \A x \in 1..m : RStrip(t[p[x] + 1]) = c[x]
              /\ \A x \in 1..(m - 1) : p[x] < p[x + 1] /\ Gap(t, p[x] + 1, p[x + 1])
              /\ Gap(t, p[m] + 1, j)
        /\ ~BlankLine(t[j + 1])
        /\ RStrip(t[j + 1]) # c[m + 1]

FirstCandidateMismatches ==
    /\ Returned
    /\ NonBlankLines(mh) # <<>>
    /\ Candidates # {}
    /\ MismatchAfter(mt, NonBlankLines(mh), FirstCandidate)

\* C5 as stated: once the first line equal to the first expected entry is
\* found, a non-blank line that differs from the next expected entry makes
\* the call return not-found.
C5_NoBacktracking == FirstCandidateMismatches => ~mres.found

\* C5 as amended: such a mismatch ends that candidate only; the call goes on
\* with the later lines equal to the first expected entry and returns the
\* first complete match among them, and not-found only if there is none.
C5_TriesLaterStarts ==
    FirstCandidateMismatches =>
        /\ mres.found <=>
              \E i \in (FirstCandidate + 1)..(Len(mt) - 1) :
                  OccursAt(mt, NonBlankLines(mh), i)
        /\ mres.found =>
              /\ mres.start > FirstCandidate
              /\ OccursAt(mt, NonBlankLines(mh), mres.start)
              /\ \A i \in ms..(mres.start - 1) : ~OccursAt(mt, NonBlankLines(mh), i)

\* A call whose first candidate hit a non-blank mismatch and which returned a
\* match that starts later.
C5_Witness == FirstCandidateMismatches /\ mres.found /\ mres.start > FirstCandidate

---------------------------------------------------------------------------
(* C10 *)

\* h has a blank entry between two non-blank entries.
HasInnerBlank(h) ==
    \E i, j, l \in 1..Len(h) : i < j /\ j < l /\ h[i] # "" /\ h[j] = "" /\ h[l] # ""

\* C10: an expected block with blank entries between non-blank entries matches
\* exactly when its non-blank entries occur in order, at or after the start of
\* the search, with nothing but blank lines (or nothing) between them.
C10_BlankEntriesIgnored ==
    (Returned /\ HasInnerBlank(mh)) =>
        /\ mres.found <=>
              \E i \in ms..(Len(mt) - 1) : OccursAt(mt, NonBlankLines(mh), i)
        /\ mres.found => OccursAt(mt, NonBlankLines(mh), mres.start)

\* A block with a blank entry inside matched lines that have no blank line
\* between them.
C10_Witness ==
    /\ Returned
    /\ HasInnerBlank(mh)
    /\ mres.found
    /\ mres.end - mres.start = Len(NonBlankLines(mh))
    /\ \A i \in mres.start..(mres.end - 1) : ~BlankLine(mt[i + 1])

---------------------------------------------------------------------------
(* C11 *)

\* The lines the loop starts from: target_lines_raw.
StartLines == IF diff # <<>> /\ MarksNewFile(diff[1]) THEN <<>> ELSE disk0.lines

\* C11: after every iteration of the loop, whatever kinds of hunk came before,
\* the offset is the number of current lines minus the number of lines the
\* run started with; each iteration moves both by the same amount.
C11_OffsetInvariant ==
    Stepped =>
        /\ offset = Len(patched) - Len(StartLines)
        /\ offset - prevOffset = Len(patched) - Len(prevLines)

\* A replacement whose matched region is not as long as its expected block,
\* after which the offset is not zero.
C11_Witness ==
    /\ LastIsReplacement
    /\ steps[k] = "replace"
    /\ matchEnd - matchStart # Len(LastExpected)
    /\ offset # 0

---------------------------------------------------------------------------
(* C12 *)

\* The lines of s with their trailing whitespace removed.
StrippedLines(s) == [i \in 1..Len(s) |-> RStrip(s[i])]

\* C12: a match returned for a block with a non-blank entry lies at or after
\* the start of the search and inside the file, is not empty, begins with the
\* first non-blank entry and ends with the last one, and its non-blank lines,
\* stripped, are the non-blank entries in order.
C12_MatchIsSound ==
    (Returned /\ mres.found /\ NonBlankLines(mh) # <<>>) =>
        LET c == NonBlankLines(mh) IN
        /\ ms <= mres.start
        /\ mres.start < mres.end
        /\ mres.end <= Len(mt)
        /\ RStrip(mt[mres.start + 1]) = c[1]
        /\ RStrip(mt[mres.end]) = c[Len(c)]
        /\ NonBlankLines(StrippedLines(SubSeq(mt, mres.start + 1, mres.end))) = c

\* A match found by a search that does not start at the top, across a blank
\* line, on lines one of which has trailing whitespace.
C12_Witness ==
    /\ Returned
    /\ mres.found
    /\ Len(NonBlankLines(mh)) >= 2
    /\ ms > 0
    /\ \E i \in mres.start..(mres.end - 1) : mt[i + 1] = ""
    /\ \E i \in mres.start..(mres.end - 1) : mt[i + 1] = "a "

---------------------------------------------------------------------------
(* C13 *)

\* hint_search_start_0idx of the hunk handled last.
LastHint == (LastOld - 1) + prevOffset

\* The indices where the non-blank expected lines of the hunk handled last
\* occur in the lines it was applied to.
LastOccurrences ==
    {i \in 0..(Len(prevLines) - 1) : OccursAt(prevLines, NonBlankLines(LastExpected), i)}

NearHint(i) ==
    LastHint - search_window_radius <= i /\ i <= LastHint + search_window_radius

Least(S) == CHOOSE i \in S : \A j \in S : i <= j

\* C13: a replacement hunk is applied at the first occurrence of its expected
\* lines that starts within 40 lines of the hint, before it or after it; when
\* the lines occur only farther away, it is applied at their first occurrence
\* in the whole file.
C13_WindowBothSides ==
    (LastIsReplacement /\ NonBlankLines(LastExpected) # <<>> /\ LastOccurrences # {}) =>
        /\ steps[k] = "replace"
        /\ matchStart =
              IF \E i \in LastOccurrences : NearHint(i)
              THEN Least({i \in LastOccurrences : NearHint(i)})
              ELSE Least(LastOccurrences)

---------------------------------------------------------------------------
(* C14 *)

\* C14: a replacement changes the matched region only: the lines after it are
\* the lines before matchStart, then the new block, then the lines from
\* matchEnd on; every line outside the region is kept, in the same order.
C14_ReplacementFrame ==
    (Stepped /\ steps[k] = "replace") =>
        LET n == Len(prevLines)
            shift == Len(LastNew) - (matchEnd - matchStart)
        IN
        /\ 0 <= matchStart /\ matchStart <= matchEnd /\ matchEnd <= n
        /\ Len(patched) = n + shift
        /\ \A i \in 0..(matchStart - 1) : patched[i + 1] = prevLines[i + 1]
        /\ \A i \in 0..(Len(LastNew) - 1) : patched[matchStart + i + 1] = LastNew[i + 1]
        /\ \A i \in matchEnd..(n - 1) : patched[i + shift + 1] = prevLines[i + 1]

\* A replacement with lines before and after the matched region, whose new
\* block is not as long as the region.
C14_Witness ==
    /\ Stepped
    /\ steps[k] = "replace"
    /\ matchStart > 0
    /\ matchEnd < Len(prevLines)
    /\ Len(LastNew) # matchEnd - matchStart

---------------------------------------------------------------------------
(* C15 *)

LastIsInsertion == Stepped /\ LastIsHunk /\ LastExpected = <<>> /\ LastNew # <<>>

\* The insertion point before it is clamped.
LastRawPoint == IF LastOld = 0 THEN prevOffset ELSE (LastOld - 1) + prevOffset

\* C15: a hunk with an empty expected block and a new block that is not empty
\* never fails and removes no line: its lines go in at the raw insertion
\* point brought into 0 .. len(lines), also when that point is below 0 or past
\* the end; the lines before and after that index are kept, and the offset
\* grows by the length of the new block.
C15_InsertionClamped ==
    LastIsInsertion =>
        LET n == Len(prevLines)
            p == IF LastRawPoint < 0 THEN 0 ELSE IF LastRawPoint > n THEN n ELSE LastRawPoint
        IN
        /\ steps[k] = "insert"
        /\ result # "fail"
        /\ patched = SubSeq(prevLines, 1, p) \o LastNew \o SubSeq(prevLines, p + 1, n)
        /\ Len(patched) = n + Len(LastNew)
        /\ offset = prevOffset + Len(LastNew)

\* An insertion whose raw point lies past the end of lines that are not empty.
C15_Witness ==
    /\ LastIsInsertion
    /\ prevLines # <<>>
    /\ LastRawPoint > Len(prevLines)

\* An insertion whose raw point lies below 0.
C15_WitnessBelow ==
    /\ LastIsInsertion
    /\ prevLines # <<>>
    /\ LastRawPoint < 0

---------------------------------------------------------------------------
(* C16 *)

\* The hunks the loop has handled so far: its iterations on parts that start
\* with "@@".
HunksDone == Cardinality({i \in 1..Len(steps) : steps[i] # "skip"})

\* The lines and the offset after the first n hunks of hs, one after the
\* other, from lines ls and offset 0; a hunk that fails leaves both as they are.
RECURSIVE AfterHunks(_, _, _)
AfterHunks(ls, hs, n) ==
    IF n = 0 THEN [lines |-> ls, off |-> 0, kinds |-> <<>>]
    ELSE LET before == AfterHunks(ls, hs, n - 1)
             out    == HunkOutcome(before.lines, before.off, hs[n])
         IN  [lines |-> out.lines, off |-> out.off,
              kinds |-> Append(before.kinds, out.kind)]

\* C16: at every point of a run the lines in memory are the lines read at the
\* start after exactly the first HunksDone hunks of the diff, in the order of
\* the diff; a hunk that cannot be applied ends the run with a failure, and
\* success is reported only once every hunk of the diff has been handled.
C16_InDiffOrder ==
    /\ HunksDone <= Len(HunkParts(diff))
    /\ (pc = "loop" \/ steps # <<>>) =>
          LET now == AfterHunks(StartLines, HunkParts(diff), HunksDone) IN
          /\ patched = now.lines
          /\ offset = now.off
          /\ SelectSeq(steps, LAMBDA x : x # "skip") = now.kinds
    /\ \A i \in 1..Len(steps) :
          steps[i] \in {"header", "match"} => result = "fail" /\ i = Len(steps)
    /\ result = "ok" => HunksDone = Len(HunkParts(diff))

\* A run that reported success after two hunks, each of which changed the
\* lines.
C16_Witness ==
    /\ result = "ok"
    /\ HunksDone = 2
    /\ prevLines # StartLines
    /\ patched # prevLines
    /\ writes = 1

---------------------------------------------------------------------------
(* C17 *)

\* The indices at or after the start of the search where the non-blank
\* entries of mh occur in mt.
OccurrencesFromStart ==
    {i \in ms..(Len(mt) - 1) : OccursAt(mt, NonBlankLines(mh), i)}

\* C17: for a block with a non-blank entry the call returns found exactly when
\* the non-blank entries occur, in order and separated by blank lines only, at
\* some index at or after the start of the search, and the match it returns
\* starts at the smallest such index.
C17_LeftmostMatch ==
    (Returned /\ NonBlankLines(mh) # <<>>) =>
        /\ mres.found <=> OccurrencesFromStart # {}
        /\ mres.found =>
              /\ mres.start \in OccurrencesFromStart
              /\ \A i \in OccurrencesFromStart : mres.start <= i

\* A call that returned the first of two occurrences of a block with two
\* non-blank entries.
C17_Witness ==
    /\ Returned
    /\ mres.found
    /\ Len(NonBlankLines(mh)) >= 2
    /\ Cardinality(OccurrencesFromStart) >= 2
    /\ \E i \in OccurrencesFromStart : mres.start < i

---------------------------------------------------------------------------
(* C18 *)

Ended == pc \in {"done", "returned"}

\* Each iteration of the loop takes the next part of the diff, once.
EachPartOnce ==
    /\ k <= Len(DiffParts(diff))
    /\ Len(steps) <= k
    /\ HunksDone <= Len(HunkParts(diff))

\* A step of the run never goes back to a part it has handled.
PartsAdvance == k' = k \/ (k' = k + 1 /\ steps' = Append(steps, steps'[k']))

\* A call of the matcher that ran step by step returned what the call
\* returns.
StepsAgreeWithCall ==
    (pc = "returned" /\ mrun # NoLocals) => mres = FindFlexibleMatch(mt, mh, ms)

\* C18 as stated: both functions come to their end, each part of the diff is
\* handled at most once, and apply_fuzzy_patch ends either with success and
\* the file written or with failure and the file not written.
C18_WrittenOrFailed ==
    /\ <>Ended
    /\ [][PartsAdvance]_vars
    /\ [](EachPartOnce)
    /\ [](pc = "done" =>
            \/ result = "ok" /\ writes = 1
            \/ result = "fail" /\ writes = 0)

\* C18 as amended: both functions come to their end, each part of the diff
\* is handled at most once, and apply_fuzzy_patch ends in exactly one of:
\* success with the file written once, success with nothing written (only for
\* a diff without hunks), failure with nothing written.
C18_Terminates ==
    /\ <>Ended
    /\ [][PartsAdvance]_vars
    /\ [](EachPartOnce)
    /\ [](pc = "returned" => StepsAgreeWithCall)
    /\ [](pc = "done" =>
            \/ /\ result = "ok"
               /\ writes = 1
               /\ disk = [exists |-> TRUE, lines |-> patched]
               /\ ~NoHunks(diff)
            \/ /\ result = "ok"
               /\ writes = 0
               /\ disk = disk0
               /\ NoHunks(diff)
            \/ /\ result = "fail"
               /\ writes = 0
               /\ disk = disk0)

\* A run that ended with success without writing a file that did not exist.
C18_Witness ==
    /\ pc = "done"
    /\ result = "ok"
    /\ writes = 0
    /\ ~disk0.exists
    /\ ~disk.exists

\* A call of the matcher that took a second start index and returned a match.
C18_WitnessMatcher ==
    /\ pc = "returned"
    /\ mres.found
    /\ mrun.i > ms

====
